---- MODULE Spec2Model ----
(***************************************************************************)
(* Model of "3-SAT Benchmarker/Tester.py": the three native SAT engines    *)
(* (brute_force_solver, dp_solver, dpll_solver), the CDCL wrapper, the      *)
(* process-based executor run_with_timeout/_worker and the loop of main.    *)
(*                                                                         *)
(* A literal is a nonzero integer, a clause a sequence of literals, a       *)
(* formula a sequence of clauses (Python lists of lists of ints).           *)
(*                                                                         *)
(* Two specifications:                                                      *)
(*   SpecSolvers  the engines applied to every formula of a bounded set;    *)
(*   Spec         main: files x solvers, one worker process per run.        *)
(***************************************************************************)
EXTENDS Integers, Sequences, FiniteSets

VARIABLES
    \* ---- SpecSolvers: one engine call after the other on one formula
    phase,      \* which call comes next
    formula,    \* the formula under test (in Spec: main's local `formula`)
    maxSteps,   \* the configured value of MAX_DP_STEPS
    bfOut,      \* what brute_force_solver(formula) did
    dp,         \* the dp_solver invocation: resolve's arguments and outcome
    dpllOut,    \* what dpll_solver(formula) did, with its number of recursive calls
    simpLit,    \* the literal given to simplify
    simpOnce,   \* simplify(formula, simpLit)
    simpTwice,  \* simplify(simpOnce, simpLit)
    \* ---- Spec: main and run_with_timeout
    pysat,      \* whether `from pysat.solvers import Solver` succeeds
    pc,         \* main's position
    fi,         \* index of the current file in `files`
    n,          \* main's local `n` (declared variable count of the current file)
    si,         \* index of the current solver in `solvers`
    alive,      \* the worker processes that are alive
    launched,   \* number of Process.start() calls so far
    work,       \* what the current worker is doing
    q,          \* the Queue of the current run_with_timeout call
    info,       \* the value run_with_timeout returned
    section,    \* the lines printed since the last "=== file ===" header
    invoked,    \* the solvers handed to run_with_timeout since that header
    missingAt,  \* value of `launched` when a worker hit the ImportError path, else 0
    exitStatus  \* the exit status of the main process, "running" before it ends

solverVars == <<phase, bfOut, dp, dpllOut, simpLit, simpOnce, simpTwice>>
mainVars == <<pysat, pc, fi, n, si, alive, launched, work, q, info, section,
              invoked, missingAt, exitStatus>>
vars == <<formula, maxSteps, solverVars, mainVars>>

-----------------------------------------------------------------------------
(* Bounds of the model and constants of the program *)

NumVars == 2            \* variables 1..NumVars occur in the formulas under test
MaxTokens == 6          \* DIMACS tokens of a formula: its literals plus one per clause
MaxClauseLen == 2       \* literals of one clause of a formula under test
MaxStepBudget == 1      \* the small value of MAX_DP_STEPS tried besides the default
NumFiles == 2           \* files handed to main

TIMEOUT_PER_SOLVER == 30
MAX_DP_STEPS == 100000
BF_THRESHOLD == 20

-----------------------------------------------------------------------------
(* Python helpers *)

Abs(x) == IF x < 0 THEN -x ELSE x

Range(s) == {s[i] : i \in 1..Len(s)}

RECURSIVE Pow2(_)
Pow2(k) == IF k = 0 THEN 1 ELSE 2 * Pow2(k - 1)

SetMax(S) == CHOOSE m \in S : \A y \in S : y <= m

SetMin(S) == CHOOSE m \in S : \A y \in S : m <= y

\* any(len(c) == 0 for c in fm)
HasEmptyClause(fm) == \E i \in 1..Len(fm) : Len(fm[i]) = 0

\* [l for c in formula for l in c], as the set of its members
LitsOf(fm) == UNION {Range(fm[i]) : i \in 1..Len(fm)}

\* some truth assignment of the variables satisfies every clause
Satisfiable(fm) ==
    \E trueVars \in SUBSET {Abs(l) : l \in LitsOf(fm)} :
        \A i \in 1..Len(fm) :
            \E j \in 1..Len(fm[i]) : (fm[i][j] > 0) = (Abs(fm[i][j]) \in trueVars)

-----------------------------------------------------------------------------
(* brute_force_solver *)

\* (lit > 0) == bool((mask >> (abs(lit)-1)) & 1)
LitTrueUnderMask(lit, mask) ==
    (lit > 0) = (((mask \div Pow2(Abs(lit) - 1)) % 2) = 1)

brute_force_solver(fm) ==
    IF LitsOf(fm) = {}
    THEN "ValueError"     \* max() of an empty sequence
    ELSE LET nmax == SetMax({Abs(l) : l \in LitsOf(fm)})
         IN IF \E mask \in 0..(Pow2(nmax) - 1) :
                  \A i \in 1..Len(fm) :
                      \E j \in 1..Len(fm[i]) : LitTrueUnderMask(fm[i][j], mask)
            THEN "True"
            ELSE "False"

-----------------------------------------------------------------------------
(* dp_solver *)

\* StepsExceeded with the step test lost
StepsExceededNever(steps, limit) == FALSE

\* steps[0] > MAX_DP_STEPS
StepsExceeded(steps, limit) == steps > limit

\* sig = frozenset(frozenset(c) for c in fm)
Signature(fm) == {Range(fm[i]) : i \in 1..Len(fm)}

\* pos = [c for c in fm if x in c]
dpPos(fm, x) == SelectSeq(fm, LAMBDA c : x \in Range(c))

\* neg = [c for c in fm if -x in c]
dpNeg(fm, x) == SelectSeq(fm, LAMBDA c : (-x) \in Range(c))

\* dpRest without its `-x not in c` test
dpRestKeepsNeg(fm, x) == SelectSeq(fm, LAMBDA c : x \notin Range(c))

\* rest = [c for c in fm if x not in c and -x not in c]
dpRest(fm, x) ==
    SelectSeq(fm, LAMBDA c : x \notin Range(c) /\ (-x) \notin Range(c))

\* rc = [l for l in p if abs(l)!=x] + [l for l in q if abs(l)!=x]
ResolventRaw(p, r, x) ==
    SelectSeq(p, LAMBDA l : Abs(l) # x) \o SelectSeq(r, LAMBDA l : Abs(l) # x)

\* S = set(rc); any(-lit in S for lit in S)
IsTautology(rc) == \E l \in Range(rc) : (-l) \in Range(rc)

\* list(dict.fromkeys(rc)): first occurrences, in order
RECURSIVE DedupKeepFirst(_)
DedupKeepFirst(s) ==
    IF s = <<>> THEN <<>>
    ELSE LET front == DedupKeepFirst(SubSeq(s, 1, Len(s) - 1))
             last == s[Len(s)]
         IN IF last \in Range(front) THEN front ELSE Append(front, last)

\* the loops `for p in pos: for q in neg:` filling `new`
dpNew(fm, x) ==
    LET pos == dpPos(fm, x)
        neg == dpNeg(fm, x)
        raw == [k \in 1..(Len(pos) * Len(neg)) |->
                   ResolventRaw(pos[((k - 1) \div Len(neg)) + 1],
                                neg[((k - 1) % Len(neg)) + 1], x)]
        kept == SelectSeq(raw, LAMBDA rc : ~IsTautology(rc))
    IN [k \in 1..Len(kept) |-> DedupKeepFirst(kept[k])]

\* dp_solver's call resolve(formula, seen=set(), steps=[0]), not yet entered
dpStart(fm) ==
    [st |-> "call", fm |-> fm, seen |-> {}, steps |-> 0, ret |-> "none"]

dpIdle == [st |-> "idle", fm |-> <<>>, seen |-> {}, steps |-> 0, ret |-> "none"]

\* One call of resolve(fm, seen, steps) whose clock test passed: d holds the
\* arguments, the value holds either the outcome (st, and in ret the statement
\* that produced it) or the arguments of the tail call.
resolve(d, limit) ==
    LET steps1 == d.steps + 1
        sig == Signature(d.fm)
        seen1 == d.seen \cup {sig}
    IN IF StepsExceeded(steps1, limit)
       THEN [d EXCEPT !.steps = steps1, !.st = "TimeoutError", !.ret = "steps"]
       ELSE IF sig \in d.seen
       THEN [d EXCEPT !.steps = steps1, !.st = "False", !.ret = "revisit"]
       ELSE IF d.fm = <<>>
       THEN [d EXCEPT !.steps = steps1, !.seen = seen1,
                      !.st = "True", !.ret = "no_clauses"]
       ELSE IF HasEmptyClause(d.fm)
       THEN [d EXCEPT !.steps = steps1, !.seen = seen1,
                      !.st = "False", !.ret = "empty_clause"]
       ELSE LET x == Abs(d.fm[1][1])
            IN [st |-> "call", fm |-> dpRest(d.fm, x) \o dpNew(d.fm, x),
                seen |-> seen1, steps |-> steps1, ret |-> "none"]

\* the clock test of resolve failing: raise TimeoutError("Timp depasit pentru DP")
resolveClock(d) == [d EXCEPT !.st = "TimeoutError", !.ret = "clock"]

\* dp_solver run to its end by a process that is not out of time
RECURSIVE dpRun(_, _)
dpRun(d, limit) == IF d.st # "call" THEN d ELSE dpRun(resolve(d, limit), limit)

dp_solver(fm, limit) == dpRun(dpStart(fm), limit).st

-----------------------------------------------------------------------------
(* dpll_solver *)

\* remove(s, v): s without the first occurrence of v
RECURSIVE RemoveFirst(_, _)
RemoveFirst(s, v) ==
    IF s = <<>> THEN <<>>
    ELSE IF s[1] = v THEN Tail(s)
    ELSE <<s[1]>> \o RemoveFirst(Tail(s), v)

\* simplify taking out one occurrence of -lit (c.remove(-lit)) instead of all
simplifyRemoveOne(frm, lit) ==
    LET kept == SelectSeq(frm, LAMBDA c : lit \notin Range(c))
    IN [i \in 1..Len(kept) |-> RemoveFirst(kept[i], -lit)]

\* def simplify(frm, lit)
simplify(frm, lit) ==
    LET kept == SelectSeq(frm, LAMBDA c : lit \notin Range(c))
    IN [i \in 1..Len(kept) |->
           IF (-lit) \in Range(kept[i])
           THEN SelectSeq(kept[i], LAMBDA l : l # -lit)
           ELSE kept[i]]

\* units = [c[0] for c in formula if len(c) == 1]
dpllUnits(fm) ==
    LET unitClauses == SelectSeq(fm, LAMBDA c : Len(c) = 1)
    IN [i \in 1..Len(unitClauses) |-> unitClauses[i][1]]

\* for u in units: formula = simplify(formula, u)
RECURSIVE SimplifyAll(_, _)
SimplifyAll(fm, ls) ==
    IF ls = <<>> THEN fm ELSE SimplifyAll(simplify(fm, ls[1]), Tail(ls))

\* the `while True:` loop of unit propagation
RECURSIVE dpllPropagate(_)
dpllPropagate(fm) ==
    LET units == dpllUnits(fm)
    IN IF units = <<>> THEN fm ELSE dpllPropagate(SimplifyAll(fm, units))

\* dpllPures with `or` in place of `^`
dpllPuresOr(fm) ==
    LET lits == LitsOf(fm)
    IN {v \in {Abs(l) : l \in lits} : (v \in lits) \/ ((-v) \in lits)}

\* pures = [v for v in set(abs(l) for l in lits) if (v in lits) ^ (-v in lits)]
dpllPures(fm) ==
    LET lits == LitsOf(fm)
    IN {v \in {Abs(l) : l \in lits} : (v \in lits) # ((-v) \in lits)}

\* for v in pures: lit = v if v in lits else -v; formula = simplify(formula, lit)
\* (lits is the list taken before the loop; the set is walked in ascending order,
\* and the order does not matter: a pure literal's negation is in no clause, so
\* each simplify only drops clauses).
RECURSIVE dpllPureLoop(_, _, _)
dpllPureLoop(fm, pures, lits) ==
    IF pures = {} THEN fm
    ELSE LET v == SetMin(pures)
             lit == IF v \in lits THEN v ELSE -v
         IN dpllPureLoop(simplify(fm, lit), pures \ {v}, lits)

dpllEliminatePures(fm) == dpllPureLoop(fm, dpllPures(fm), LitsOf(fm))

\* dpll_solver(formula): its return value and the number of recursive calls of
\* dpll_solver made below this one (`or` does not evaluate its right side when
\* the left one is True).
RECURSIVE dpll_run(_)
dpll_run(fm) ==
    LET f == dpllEliminatePures(dpllPropagate(fm))
    IN IF f = <<>> THEN [result |-> "True", calls |-> 0]
       ELSE IF HasEmptyClause(f) THEN [result |-> "False", calls |-> 0]
       ELSE LET lit == f[1][1]
                a == dpll_run(simplify(f, lit))
            IN IF a.result = "True"
               THEN [result |-> "True", calls |-> 1 + a.calls]
               ELSE LET b == dpll_run(simplify(f, -lit))
                    IN [result |-> b.result, calls |-> 2 + a.calls + b.calls]

dpll_solver(fm) == dpll_run(fm).result

dpllIdle == [result |-> "none", calls |-> 0]

-----------------------------------------------------------------------------
(* The formulas under test *)

Lits == {l \in (-NumVars)..NumVars : l # 0}

\* the clauses of exactly m literals
ClausesOfLen(m) == [1..m -> Lits]

Min(a, b) == IF a < b THEN a ELSE b

\* the formulas of at most t DIMACS tokens (each clause: its literals and its 0)
\* whose clauses hold at most MaxClauseLen literals
RECURSIVE FormulasUpTo(_)
FormulasUpTo(t) ==
    IF t <= 0 THEN {<<>>}
    ELSE {<<>>} \cup
         UNION {{<<c>> \o f : c \in ClausesOfLen(m), f \in FormulasUpTo(t - 1 - m)} :
                    m \in 0..Min(MaxClauseLen, t - 1)}

Formulas == FormulasUpTo(MaxTokens)

\* the values of MAX_DP_STEPS the engines are run with
StepBudgets == {MaxStepBudget, MAX_DP_STEPS}

-----------------------------------------------------------------------------
(* SpecSolvers: the engines called on one formula *)

\* `info` before run_with_timeout has returned anything
NoInfo == [unset |-> TRUE]

mainIdle ==
    /\ pysat = TRUE /\ pc = "idle" /\ fi = 0 /\ n = 0 /\ si = 0
    /\ alive = {} /\ launched = 0 /\ work = "none" /\ q = <<>>
    /\ info = NoInfo /\ section = <<>> /\ invoked = <<>>
    /\ missingAt = 0 /\ exitStatus = "running"

InitSolvers ==
    /\ formula \in Formulas
    /\ maxSteps \in StepBudgets
    /\ phase \in {"engines", "simplify"}
    /\ phase = "simplify" => maxSteps = MAX_DP_STEPS
    /\ bfOut = "none"
    /\ dp = dpIdle
    /\ dpllOut = dpllIdle
    /\ simpLit = 0 /\ simpOnce = <<>> /\ simpTwice = <<>>
    /\ mainIdle

CallBruteForce ==
    /\ phase = "engines"
    /\ bfOut' = brute_force_solver(formula)
    /\ phase' = "dpll"
    /\ UNCHANGED <<formula, maxSteps, dp, dpllOut, simpLit, simpOnce, simpTwice,
                   mainVars>>

CallDpll ==
    /\ phase = "dpll"
    /\ dpllOut' = dpll_run(formula)
    /\ phase' = "dp"
    /\ UNCHANGED <<formula, maxSteps, bfOut, dp, simpLit, simpOnce, simpTwice,
                   mainVars>>

CallDp ==
    /\ phase = "dp"
    /\ dp' = dpStart(formula)
    /\ phase' = "resolve"
    /\ UNCHANGED <<formula, maxSteps, bfOut, dpllOut, simpLit, simpOnce,
                   simpTwice, mainVars>>

\* one call of resolve
Resolve ==
    /\ phase = "resolve"
    /\ dp.st = "call"
    /\ dp' = resolve(dp, maxSteps)
    /\ UNCHANGED <<phase, formula, maxSteps, bfOut, dpllOut, simpLit, simpOnce,
                   simpTwice, mainVars>>

\* one call of resolve that finds more than TIMEOUT_PER_SOLVER seconds elapsed
ResolveClock ==
    /\ phase = "resolve"
    /\ dp.st = "call"
    /\ dp' = resolveClock(dp)
    /\ UNCHANGED <<phase, formula, maxSteps, bfOut, dpllOut, simpLit, simpOnce,
                   simpTwice, mainVars>>

CallSimplify ==
    /\ phase = "simplify"
    /\ \E l \in Lits :
          /\ simpLit' = l
          /\ simpOnce' = simplify(formula, l)
    /\ phase' = "simplify_again"
    /\ UNCHANGED <<formula, maxSteps, bfOut, dp, dpllOut, simpTwice, mainVars>>

CallSimplifyAgain ==
    /\ phase = "simplify_again"
    /\ simpTwice' = simplify(simpOnce, simpLit)
    /\ phase' = "simplified"
    /\ UNCHANGED <<formula, maxSteps, bfOut, dp, dpllOut, simpLit, simpOnce,
                   mainVars>>

NextSolvers ==
    \/ CallBruteForce
    \/ CallDpll
    \/ CallDp
    \/ Resolve
    \/ ResolveClock
    \/ CallSimplify
    \/ CallSimplifyAgain

SpecSolvers == InitSolvers /\ [][NextSolvers]_vars

-----------------------------------------------------------------------------
(* _worker: what the worker process leaves in the queue for an outcome of    *)
(* func(formula). SystemExit is no Exception: nothing is put.                *)

NoMessage == <<>>

TimeoutMessage == <<[timeout |-> TRUE]>>

workerPuts(outcome) ==
    IF outcome \in {"True", "False"} THEN <<[result |-> outcome]>>
    ELSE IF outcome = "SystemExit" THEN NoMessage
    ELSE TimeoutMessage

-----------------------------------------------------------------------------
(* cdcl_solver: the verdict is that of the library's Glucose3, a complete     *)
(* solver; without the library the function calls sys.exit(1).                *)

cdcl_solver(fm, installed) ==
    IF ~installed THEN "SystemExit"
    ELSE IF Satisfiable(fm) THEN "True" ELSE "False"

-----------------------------------------------------------------------------
(* main *)

\* the names of the list `solvers`, in its order
SolverNames == <<"Brute-Force", "Davis-Putnam", "DPLL", "CDCL">>

\* res = func(formula) in the worker
runSolver(name, fm, limit, installed) ==
    CASE name = "Brute-Force" -> brute_force_solver(fm)
      [] name = "Davis-Putnam" -> dp_solver(fm, limit)
      [] name = "DPLL" -> dpll_solver(fm)
      [] name = "CDCL" -> cdcl_solver(fm, installed)

\* name == "Brute-Force" and n > BF_THRESHOLD, with >= for >
skipsSolverAtThreshold(name, nvars) == name = "Brute-Force" /\ nvars >= BF_THRESHOLD

\* name == "Brute-Force" and n > BF_THRESHOLD
skipsSolver(name, nvars) == name = "Brute-Force" /\ nvars > BF_THRESHOLD

\* the processes alive after a p.terminate() that is not followed by p.join()
\* and does not stop the worker at once
afterTerminateNoJoin(procs, pid) == procs

\* the processes alive after p.terminate(); p.join()
afterTerminate(procs, pid) == procs \ {pid}

\* what parse_cnf_file returns for the files handed to main: formulas without
\* empty clauses (the parser appends no empty list), possibly without clauses
SampleFormulas ==
    { <<>>,
      <<<<1>>>>,
      <<<<1, -1>>>>,
      <<<<1>>, <<-1>>>>,
      <<<<1, 2>>, <<-1, -2>>>> }

\* the variable counts the "p cnf" lines declare
HeaderCounts == {NumVars, BF_THRESHOLD, BF_THRESHOLD + 1}

\* the worker of the current run_with_timeout call
CurrentPid == launched

\* the positions of main inside run_with_timeout
InRun == {"join", "is_alive", "terminate"}

Init ==
    /\ formula = <<>> /\ n = 0
    /\ maxSteps \in StepBudgets
    /\ pysat \in BOOLEAN
    /\ pc = "files" /\ fi = 0 /\ si = 0
    /\ alive = {} /\ launched = 0 /\ work = "none" /\ q = <<>>
    /\ info = NoInfo /\ section = <<>> /\ invoked = <<>>
    /\ missingAt = 0 /\ exitStatus = "running"
    /\ phase = "idle" /\ bfOut = "none" /\ dp = dpIdle /\ dpllOut = dpllIdle
    /\ simpLit = 0 /\ simpOnce = <<>> /\ simpTwice = <<>>

\* `for path in files`: the header is printed and parse_cnf_file succeeds
ParseFile ==
    /\ pc = "files" /\ fi < NumFiles
    /\ fi' = fi + 1
    /\ \E f \in SampleFormulas, nv \in HeaderCounts :
          formula' = f /\ n' = nv
    /\ si' = 0 /\ section' = <<>> /\ invoked' = <<>>
    /\ pc' = "solvers"
    /\ UNCHANGED <<maxSteps, solverVars, pysat, alive, launched, work, q, info,
                   missingAt, exitStatus>>

\* parse_cnf_file raises: "Eroare la parsare", continue
ParseError ==
    /\ pc = "files" /\ fi < NumFiles
    /\ fi' = fi + 1
    /\ section' = <<>> /\ invoked' = <<>>
    /\ UNCHANGED <<pc, formula, n, si, maxSteps, solverVars, pysat, alive,
                   launched, work, q, info, missingAt, exitStatus>>

\* the loop over files is over: the last line is printed and main returns
Finish ==
    /\ pc = "files" /\ fi = NumFiles
    /\ pc' = "done" /\ exitStatus' = "0"
    /\ UNCHANGED <<formula, n, maxSteps, solverVars, pysat, fi, si, alive,
                   launched, work, q, info, section, invoked, missingAt>>

\* `for name, solver in solvers` is over for this file
FileDone ==
    /\ pc = "solvers" /\ si = Len(SolverNames)
    /\ pc' = "files"
    /\ UNCHANGED <<formula, n, maxSteps, solverVars, pysat, fi, si, alive,
                   launched, work, q, info, section, invoked, missingAt,
                   exitStatus>>

\* the skip branch: "SARIT (n>20)", continue
SkipSolver ==
    /\ pc = "solvers" /\ si < Len(SolverNames)
    /\ skipsSolver(SolverNames[si + 1], n)
    /\ si' = si + 1
    /\ section' = Append(section, [solver |-> SolverNames[si + 1], text |-> "SARIT"])
    /\ UNCHANGED <<pc, formula, n, maxSteps, solverVars, pysat, fi, alive,
                   launched, work, q, info, invoked, missingAt, exitStatus>>

\* run_with_timeout up to p.start(): a fresh queue and a new worker process
StartSolver ==
    /\ pc = "solvers" /\ si < Len(SolverNames)
    /\ ~skipsSolver(SolverNames[si + 1], n)
    /\ si' = si + 1
    /\ invoked' = Append(invoked, SolverNames[si + 1])
    /\ q' = <<>>
    /\ launched' = launched + 1
    /\ alive' = alive \cup {launched + 1}
    /\ work' = "running"
    /\ pc' = "join"
    /\ UNCHANGED <<formula, n, maxSteps, solverVars, pysat, fi, info, section,
                   missingAt, exitStatus>>

\* _worker runs func(formula) to its end, puts its message and the process exits
WorkerFinish ==
    /\ work = "running" /\ CurrentPid \in alive
    /\ LET outcome == runSolver(SolverNames[si], formula, maxSteps, pysat)
       IN /\ q' = q \o workerPuts(outcome)
          /\ missingAt' = IF outcome = "SystemExit" /\ missingAt = 0
                          THEN launched ELSE missingAt
    /\ work' = "exited"
    /\ alive' = alive \ {CurrentPid}
    /\ UNCHANGED <<pc, formula, n, maxSteps, solverVars, pysat, fi, si, launched,
                   info, section, invoked, exitStatus>>

\* dp_solver's own clock test fails in the worker: TimeoutError, caught by _worker
WorkerDpClock ==
    /\ work = "running" /\ CurrentPid \in alive
    /\ SolverNames[si] = "Davis-Putnam"
    /\ q' = q \o workerPuts(resolveClock(dpStart(formula)).st)
    /\ work' = "exited"
    /\ alive' = alive \ {CurrentPid}
    /\ UNCHANGED <<pc, formula, n, maxSteps, solverVars, pysat, fi, si, launched,
                   info, section, invoked, missingAt, exitStatus>>

\* p.join(TIMEOUT_PER_SOLVER) returns because the worker has exited
JoinReturns ==
    /\ pc = "join" /\ CurrentPid \notin alive
    /\ pc' = "is_alive"
    /\ UNCHANGED <<formula, n, maxSteps, solverVars, pysat, fi, si, alive,
                   launched, work, q, info, section, invoked, missingAt,
                   exitStatus>>

\* p.join(TIMEOUT_PER_SOLVER) returns because the time is over
JoinTimesOut ==
    /\ pc = "join" /\ CurrentPid \in alive
    /\ pc' = "is_alive"
    /\ UNCHANGED <<formula, n, maxSteps, solverVars, pysat, fi, si, alive,
                   launched, work, q, info, section, invoked, missingAt,
                   exitStatus>>

\* p.is_alive() is true
IsAlive ==
    /\ pc = "is_alive" /\ CurrentPid \in alive
    /\ pc' = "terminate"
    /\ UNCHANGED <<formula, n, maxSteps, solverVars, pysat, fi, si, alive,
                   launched, work, q, info, section, invoked, missingAt,
                   exitStatus>>

\* p.terminate(); p.join(); return {'timeout': True}
Terminate ==
    /\ pc = "terminate"
    /\ alive' = afterTerminate(alive, CurrentPid)
    /\ work' = IF work = "running" THEN "terminated" ELSE work
    /\ info' = [timeout |-> TRUE]
    /\ pc' = "report"
    /\ UNCHANGED <<formula, n, maxSteps, solverVars, pysat, fi, si, launched, q,
                   section, invoked, missingAt, exitStatus>>

\* p.is_alive() is false: info = q.get() if not q.empty() else {'timeout': True}
ReadQueue ==
    /\ pc = "is_alive" /\ CurrentPid \notin alive
    /\ info' = IF q # <<>> THEN Head(q) ELSE [timeout |-> TRUE]
    /\ q' = IF q # <<>> THEN Tail(q) ELSE q
    /\ pc' = "report"
    /\ UNCHANGED <<formula, n, maxSteps, solverVars, pysat, fi, si, alive,
                   launched, work, section, invoked, missingAt, exitStatus>>

\* the line main prints for `info`
reportText(i) ==
    IF "timeout" \in DOMAIN i THEN "TIMEOUT"
    ELSE IF i.result = "True" THEN "SAT" ELSE "UNSAT"

Report ==
    /\ pc = "report"
    /\ section' = Append(section, [solver |-> SolverNames[si], text |-> reportText(info)])
    /\ pc' = "solvers"
    /\ UNCHANGED <<formula, n, maxSteps, solverVars, pysat, fi, si, alive,
                   launched, work, q, info, invoked, missingAt, exitStatus>>

Next ==
    \/ ParseFile
    \/ ParseError
    \/ Finish
    \/ FileDone
    \/ SkipSolver
    \/ StartSolver
    \/ WorkerFinish
    \/ WorkerDpClock
    \/ JoinReturns
    \/ JoinTimesOut
    \/ IsAlive
    \/ Terminate
    \/ ReadQueue
    \/ Report

Spec == Init /\ [][Next]_vars

-----------------------------------------------------------------------------
(* Properties of the engines (SpecSolvers) *)

Verdicts == {"True", "False"}

\* the three engines have ended, dp_solver not by a resource abort
EnginesReturned == bfOut # "none" /\ dpllOut.result # "none" /\ dp.st \in Verdicts

\* C1: on every formula (of at most BF_THRESHOLD variables) brute_force_solver,
\* dp_solver and dpll_solver return the same verdict. Stated here for the
\* formulas that hold at least one literal; the others are C3's and C4's.
C1_EnginesAgree ==
    (EnginesReturned /\ LitsOf(formula) # {})
        => (bfOut \in Verdicts /\ bfOut = dp.st /\ dpllOut.result = dp.st)

\* C3: for the formula without clauses each engine yields Satisfiable.
C3_EmptyFormulaSat ==
    formula = <<>> =>
        /\ bfOut \in {"none", "True"}
        /\ dpllOut.result \in {"none", "True"}
        /\ dp.st \in Verdicts => dp.st = "True"

\* C4: for a formula with an empty clause each engine yields Unsatisfiable,
\* dp_solver in its first call of resolve and dpll_solver without a recursive call.
C4_EmptyClauseUnsat ==
    HasEmptyClause(formula) =>
        /\ bfOut \in {"none", "False"}
        /\ dpllOut.result \in {"none", "False"} /\ dpllOut.calls = 0
        /\ dp.st \in Verdicts => (dp.st = "False" /\ dp.steps = 1)

\* C7: once the step counter of a dp_solver invocation is above MAX_DP_STEPS the
\* invocation has ended by the TimeoutError of the step test, which the worker
\* reports as a timeout; it holds no verdict.
C7_StepBudgetAborts ==
    dp.steps > maxSteps =>
        /\ dp.st = "TimeoutError" /\ dp.ret = "steps"
        /\ workerPuts(dp.st) = TimeoutMessage

C7_Witness ==
    /\ dp.steps > maxSteps /\ dp.st = "TimeoutError"
    /\ dp_solver(formula, MAX_DP_STEPS) \in Verdicts

\* C8: simplify(simplify(F, l), l) = simplify(F, l) for a literal l of F.
C8_SimplifyIdempotent ==
    (phase = "simplified" /\ simpLit \in LitsOf(formula)) => simpTwice = simpOnce

\* a clause holds -l twice, another holds l
C8_Witness ==
    /\ phase = "simplified" /\ simpLit \in LitsOf(formula)
    /\ \E i \in 1..Len(formula) :
          /\ simpLit \notin Range(formula[i])
          /\ Cardinality({j \in 1..Len(formula[i]) : formula[i][j] = -simpLit}) >= 2
    /\ simpTwice = simpOnce /\ simpOnce # formula

\* C9: no call of resolve finds the signature of its formula in `seen`: the
\* cycle guard never returns, and the formula of the next call is new.
C9_GuardNeverTaken ==
    /\ dp.ret # "revisit"
    /\ dp.st = "call" => Signature(dp.fm) \notin dp.seen

\* an invocation that eliminated two variables before its verdict
C9_Witness == dp.st \in Verdicts /\ dp.steps >= 3 /\ Cardinality(dp.seen) >= 3

\* C10: dpll_solver returns True exactly when the formula is satisfiable.
C10_DpllCorrect ==
    dpllOut.result # "none" => ((dpllOut.result = "True") <=> Satisfiable(formula))

\* complementary unit clauses collected in one batch
C10_Witness ==
    /\ dpllOut.result = "False"
    /\ \E l \in Range(dpllUnits(formula)) : (-l) \in Range(dpllUnits(formula))
    /\ ~HasEmptyClause(formula)

-----------------------------------------------------------------------------
(* Properties of main and run_with_timeout (Spec) *)

\* the lines of the current file that report an outcome
OutcomeLines == SelectSeq(section, LAMBDA line : line.text # "SARIT")

SolversOf(ls) == [i \in 1..Len(ls) |-> ls[i].solver]

IsPrefix(a, b) == Len(a) <= Len(b) /\ a = SubSeq(b, 1, Len(a))

\* the solvers a file of nvars declared variables is to be run with
ExpectedSolvers(nvars) ==
    IF nvars > BF_THRESHOLD THEN Tail(SolverNames) ELSE SolverNames

\* C2: once a worker has found the CDCL library missing, no further solver is
\* started, the outcome is not printed as TIMEOUT, and as soon as
\* run_with_timeout has returned the run has ended with a status other than 0.
C2_MissingDependencyHalts ==
    missingAt > 0 =>
        /\ launched = missingAt
        /\ pc \notin InRun => exitStatus \notin {"running", "0"}
        /\ ~(\E i \in 1..Len(section) :
                section[i] = [solver |-> "CDCL", text |-> "TIMEOUT"])

\* C5: per parsed file the solvers are handled in the order of SolverNames, each
\* started at most once and reported once, Brute-Force left out exactly when
\* n > BF_THRESHOLD; when the loop over the solvers ends every one of them has
\* been started and has its line, whatever the earlier outcomes were.
C5_FixedOrderOneOutcome ==
    /\ IsPrefix(invoked, ExpectedSolvers(n))
    /\ IsPrefix(SolversOf(OutcomeLines), invoked)
    /\ Len(invoked) <= Len(OutcomeLines) + 1
    /\ (pc = "solvers" /\ si = Len(SolverNames)) =>
          /\ invoked = ExpectedSolvers(n)
          /\ SolversOf(OutcomeLines) = ExpectedSolvers(n)
          /\ (n > BF_THRESHOLD) <=>
                (\E i \in 1..Len(section) : section[i].solver = "Brute-Force"
                                            /\ section[i].text = "SARIT")

\* Brute-Force skipped, Davis-Putnam timed out, DPLL and CDCL reported after it
C5_Witness ==
    /\ pc = "solvers" /\ si = Len(SolverNames) /\ n > BF_THRESHOLD
    /\ Len(OutcomeLines) = 3
    /\ OutcomeLines[1] = [solver |-> "Davis-Putnam", text |-> "TIMEOUT"]
    /\ OutcomeLines[2].solver = "DPLL" /\ OutcomeLines[2].text # "TIMEOUT"
    /\ OutcomeLines[3].solver = "CDCL"

\* C6: at most one worker process is alive, and none is outside
\* run_with_timeout: a solver run starts only after the earlier worker is gone.
C6_OneWorkerAtATime ==
    /\ Cardinality(alive) <= 1
    /\ pc \notin InRun => alive = {}

\* a worker that was still running has been terminated, in a later run
C6_Witness ==
    /\ pc = "report" /\ work = "terminated" /\ launched >= 2
    /\ info = [timeout |-> TRUE] /\ alive = {}

====
